---- MODULE Spec2Model ----
(***************************************************************************)
(* Model of racelogic-ref-to-dbc (src/main.go): processFile walks a binary *)
(* container, inflates its entries into text lines, parseSignalLines       *)
(* builds the Message map and writeDBC serialises it.                      *)
(*                                                                         *)
(* The input file is a sequence of bytes (0..255).  Decompressed text is a *)
(* sequence of characters (one-character strings).  zlib itself is a       *)
(* library: a payload <<ZlibCMF, k>> inflates to the text inflate[k], and  *)
(* every other payload is an invalid zlib stream.                          *)
(***************************************************************************)
EXTENDS Integers, Sequences, FiniteSets, TLC

VARIABLES
    input,          \* the bytes of the input file
    inflate,        \* what each valid compressed payload inflates to
    pc,             \* position of processFile
    pos,            \* bytes of input consumed by the bufio.Reader
    hasWarnings,    \* processFile's hasWarnings
    err,            \* processFile's returned error ("" is nil)
    totalEntries,   \* the entry count read from the container
    i,              \* the entry loop's counter
    allLines,       \* lines collected from the entries
    lineNo,         \* lines already handled by parseSignalLines
    messages,       \* parseSignalLines' map: message ID -> Message
    parseWarnings,  \* parseSignalLines' own hasWarnings
    wbuf,           \* bufio.Writer buffer filled by writeDBC
    outFile         \* the file at outputPath

vars == <<input, inflate, pc, pos, hasWarnings, err, totalEntries, i, allLines,
          lineNo, messages, parseWarnings, wbuf, outFile>>

\* ---------------------------------------------------------------- bounds
MaxEntries == 2
MaxLines == 3

\* ------------------------------------------------------------- constants
CR == 13
LF == 10
ZlibCMF == 120
MaxScanTokenSize == 65536
DefaultDLC == 8
MinFields == 11
MaxInt == 2147483647
MaxFloatExp == 308
MinFloatExp == 324

NoError == ""
DefaultNode == "VECTOR__XXX"

\* ------------------------------------------------------ the byte reader

\* readUpToCRLF: bytes are consumed up to, and not including, the first CR LF;
\* when fewer than two bytes are left Peek fails with EOF and the rest is
\* taken by io.ReadAll, which reports no error.
RECURSIVE ReadUpToCRLFFrom(_, _, _)
ReadUpToCRLFFrom(s, start, p) ==
    IF Len(s) - p < 2
    THEN [line |-> SubSeq(s, start + 1, Len(s)), pos |-> Len(s), err |-> NoError]
    ELSE IF s[p + 1] = CR /\ s[p + 2] = LF
    THEN [line |-> SubSeq(s, start + 1, p), pos |-> p, err |-> NoError]
    ELSE ReadUpToCRLFFrom(s, start, p + 1)

\* Mutant: the terminator is consumed together with the field.
readUpToCRLFConsuming(s, p) ==
    LET r == ReadUpToCRLFFrom(s, p, p) IN
    IF Len(s) - r.pos >= 2 THEN [r EXCEPT !.pos = r.pos + 2] ELSE r

readUpToCRLF(s, p) == ReadUpToCRLFFrom(s, p, p)

\* bufio.Reader.Discard(n)
Discard(s, p, n) ==
    IF Len(s) - p < n
    THEN [pos |-> Len(s), err |-> "EOF"]
    ELSE [pos |-> p + n, err |-> NoError]

\* binary.Read(r, binary.BigEndian, &uint16)
ReadUint16(s, p) ==
    IF Len(s) - p = 0 THEN [val |-> 0, pos |-> p, err |-> "EOF"]
    ELSE IF Len(s) - p = 1 THEN [val |-> 0, pos |-> Len(s), err |-> "unexpected EOF"]
    ELSE [val |-> s[p + 1] * 256 + s[p + 2], pos |-> p + 2, err |-> NoError]

\* Mutant: a payload shorter than declared is returned as it is, without error.
readZlibStrShort(s, p) ==
    LET l == ReadUint16(s, p) IN
    IF l.err # NoError
    THEN [data |-> <<>>, pos |-> l.pos, err |-> NoError]
    ELSE IF Len(s) - l.pos < l.val
    THEN [data |-> SubSeq(s, l.pos + 1, Len(s)), pos |-> Len(s), err |-> NoError]
    ELSE [data |-> SubSeq(s, l.pos + 1, l.pos + l.val), pos |-> l.pos + l.val,
          err |-> NoError]

readZlibStr(s, p) ==
    LET l == ReadUint16(s, p) IN
    IF l.err # NoError
    THEN [data |-> <<>>, pos |-> l.pos, err |-> "could not read zlib string length"]
    ELSE IF Len(s) - l.pos < l.val
    THEN [data |-> <<>>, pos |-> Len(s), err |-> "could not read zlib string data"]
    ELSE [data |-> SubSeq(s, l.pos + 1, l.pos + l.val), pos |-> l.pos + l.val,
          err |-> NoError]

decompressZlib(compressedData) ==
    IF /\ Len(compressedData) = 2
       /\ compressedData[1] = ZlibCMF
       /\ compressedData[2] \in DOMAIN inflate
    THEN [data |-> inflate[compressedData[2]], err |-> NoError]
    ELSE [data |-> <<>>, err |-> "zlib"]

\* ------------------------------------------------- bufio.Scanner, lines

\* One element of a text is one byte, except LongRun, which stands for a run
\* of MaxScanTokenSize bytes none of which is a newline.
LongRun == "X*65536"

CharWidth(c) == IF c = LongRun THEN MaxScanTokenSize ELSE 1

RECURSIVE Width(_)
Width(t) == IF t = <<>> THEN 0 ELSE CharWidth(Head(t)) + Width(Tail(t))

NewlineAt(t) ==
    IF \E k \in 1..Len(t) : t[k] = "\n"
    THEN CHOOSE k \in 1..Len(t) : t[k] = "\n" /\ \A j \in 1..(k - 1) : t[j] # "\n"
    ELSE 0

DropCR(t) == IF t # <<>> /\ t[Len(t)] = "\r" THEN SubSeq(t, 1, Len(t) - 1) ELSE t

\* The tokens scanner.Scan() yields with the default split function and the
\* default buffer: Scan returns false for good once the buffer is full
\* without holding a whole line (scanner.Err() is not looked at).
RECURSIVE ScanLines(_)
ScanLines(t) ==
    IF t = <<>> THEN <<>>
    ELSE LET k == NewlineAt(t) IN
         IF k = 0
         THEN IF Width(t) >= MaxScanTokenSize THEN <<>> ELSE <<DropCR(t)>>
         ELSE IF Width(SubSeq(t, 1, k)) > MaxScanTokenSize THEN <<>>
         ELSE <<DropCR(SubSeq(t, 1, k - 1))>> \o ScanLines(SubSeq(t, k + 1, Len(t)))

IsSpace(c) == c \in {" ", "\t", "\n", "\r", "\f"}

\* strings.TrimSpace(line) != ""
NonBlank(line) == \E k \in 1..Len(line) : ~IsSpace(line[k])

RECURSIVE KeepNonBlank(_)
KeepNonBlank(ls) ==
    IF ls = <<>> THEN <<>>
    ELSE IF NonBlank(Head(ls)) THEN <<Head(ls)>> \o KeepNonBlank(Tail(ls))
    ELSE KeepNonBlank(Tail(ls))

\* The lines one decompressed entry adds to allLines (src/main.go:167-173).
EntryLines(decompressedData) == KeepNonBlank(ScanLines(decompressedData))

\* --------------------------------------------------- strings and strconv

Digits == <<"0", "1", "2", "3", "4", "5", "6", "7", "8", "9">>

IsDigit(c) == \E d \in 1..10 : Digits[d] = c

DigitVal(c) == (CHOOSE d \in 1..10 : Digits[d] = c) - 1

AllDigits(t) == \A k \in 1..Len(t) : IsDigit(t[k])

UpperCase == <<"A", "B", "C", "D", "E", "F", "G", "H", "I", "J", "K", "L", "M",
               "N", "O", "P", "Q", "R", "S", "T", "U", "V", "W", "X", "Y", "Z">>
LowerCase == <<"a", "b", "c", "d", "e", "f", "g", "h", "i", "j", "k", "l", "m",
               "n", "o", "p", "q", "r", "s", "t", "u", "v", "w", "x", "y", "z">>

\* strings.ToLower
ToLower(t) ==
    [k \in 1..Len(t) |->
        IF \E u \in 1..26 : UpperCase[u] = t[k]
        THEN LowerCase[CHOOSE u \in 1..26 : UpperCase[u] = t[k]]
        ELSE t[k]]

\* strings.Trim(s, cutset)
RECURSIVE TrimLeft(_, _)
TrimLeft(t, cutset) ==
    IF t # <<>> /\ Head(t) \in cutset THEN TrimLeft(Tail(t), cutset) ELSE t

RECURSIVE TrimRight(_, _)
TrimRight(t, cutset) ==
    IF t # <<>> /\ t[Len(t)] \in cutset
    THEN TrimRight(SubSeq(t, 1, Len(t) - 1), cutset)
    ELSE t

Trim(t, cutset) == TrimRight(TrimLeft(t, cutset), cutset)

IndexOf(t, cs) ==
    IF \E k \in 1..Len(t) : t[k] \in cs
    THEN CHOOSE k \in 1..Len(t) : t[k] \in cs /\ \A j \in 1..(k - 1) : t[j] \notin cs
    ELSE 0

\* strings.Split(s, ","): the empty string splits into one empty field.
RECURSIVE Split(_)
Split(t) ==
    LET k == IndexOf(t, {","}) IN
    IF k = 0 THEN <<t>>
    ELSE <<SubSeq(t, 1, k - 1)>> \o Split(SubSeq(t, k + 1, Len(t)))

\* The value of a run of decimal digits, saturating at cap + 1 (never more,
\* so that no intermediate value leaves TLC's 32-bit integers).
RECURSIVE DigitsFrom(_, _, _)
DigitsFrom(t, acc, cap) ==
    IF t = <<>> THEN acc
    ELSE IF acc > cap THEN acc
    ELSE IF acc > (cap - DigitVal(Head(t))) \div 10 THEN cap + 1
    ELSE DigitsFrom(Tail(t), acc * 10 + DigitVal(Head(t)), cap)

DigitsValue(t, cap) == DigitsFrom(t, 0, cap)

\* strconv.Atoi with int at its 32-bit width (GOARCH=386, arm); a 64-bit
\* build saturates the same way at 2^63 - 1.  A syntax error returns 0; a
\* range error returns the nearest representable value.
Atoi(t) ==
    LET neg  == t # <<>> /\ Head(t) = "-"
        body == IF t # <<>> /\ Head(t) \in {"+", "-"} THEN Tail(t) ELSE t
        mag  == DigitsValue(body, MaxInt - 1)
    IN  IF body = <<>> \/ ~AllDigits(body)
        THEN [val |-> 0, err |-> "syntax"]
        ELSE IF mag < MaxInt THEN [val |-> IF neg THEN -mag ELSE mag, err |-> NoError]
        ELSE IF ~neg /\ TrimLeft(body, {"0"}) = <<"2", "1", "4", "7", "4", "8", "3", "6", "4", "7">>
        THEN [val |-> MaxInt, err |-> NoError]
        ELSE IF neg /\ TrimLeft(body, {"0"}) \in
                {<<"2", "1", "4", "7", "4", "8", "3", "6", "4", "7">>,
                 <<"2", "1", "4", "7", "4", "8", "3", "6", "4", "8">>}
        THEN [val |-> IF body[Len(body)] = "7" THEN -MaxInt ELSE -MaxInt - 1,
              err |-> NoError]
        ELSE [val |-> IF neg THEN -MaxInt - 1 ELSE MaxInt, err |-> "range"]

\* strconv.ParseUint(s, 10, 32): no sign is accepted.  IDs from 2^31 - 1 to
\* 2^32 - 1, which the code accepts, lie beyond TLC's 32-bit integers: the
\* inputs hold none, and every larger number is a range error as in the code.
ParseUint(t) ==
    LET mag == DigitsValue(t, MaxInt - 1) IN
    IF t = <<>> \/ ~AllDigits(t) THEN [val |-> 0, err |-> "syntax"]
    ELSE IF mag < MaxInt THEN [val |-> mag, err |-> NoError]
    ELSE [val |-> 0, err |-> "range"]

\* A float64 is held as m * 10^e (m not divisible by 10 unless zero), or as
\* an infinity (inf = 1 or -1).
Float(m, e) == [m |-> m, e |-> e, inf |-> 0]
FloatZero == Float(0, 0)
FloatInf(sign) == [m |-> 0, e |-> 0, inf |-> sign]

RECURSIVE Normalize(_, _)
Normalize(m, e) ==
    IF m = 0 THEN FloatZero
    ELSE IF m % 10 = 0 THEN Normalize(m \div 10, e + 1)
    ELSE Float(m, e)

RECURSIVE NumDigits(_)
NumDigits(n) == IF n < 10 THEN 1 ELSE 1 + NumDigits(n \div 10)

\* strconv.ParseFloat(s, 64) on decimal text [sign] digits [. digits]
\* [e [sign] digits].  A syntax error returns 0; a value too large for a
\* float64 returns an infinity together with a range error; one too small
\* returns 0 and no error.  The decade next to either limit is decided by
\* the decimal exponent alone.
ParseFloat(t) ==
    LET neg   == t # <<>> /\ Head(t) = "-"
        body  == IF t # <<>> /\ Head(t) \in {"+", "-"} THEN Tail(t) ELSE t
        ePos  == IndexOf(body, {"e", "E"})
        mant  == IF ePos = 0 THEN body ELSE SubSeq(body, 1, ePos - 1)
        expT  == IF ePos = 0 THEN <<>> ELSE SubSeq(body, ePos + 1, Len(body))
        eNeg  == expT # <<>> /\ Head(expT) = "-"
        expD  == IF expT # <<>> /\ Head(expT) \in {"+", "-"} THEN Tail(expT) ELSE expT
        dot   == IndexOf(mant, {"."})
        intD  == IF dot = 0 THEN mant ELSE SubSeq(mant, 1, dot - 1)
        fracD == IF dot = 0 THEN <<>> ELSE SubSeq(mant, dot + 1, Len(mant))
        ok    == /\ intD \o fracD # <<>>
                 /\ AllDigits(intD \o fracD)
                 /\ ePos # 0 => (expD # <<>> /\ AllDigits(expD))
        m     == DigitsValue(intD \o fracD, MaxInt - 1)
        ex    == DigitsValue(expD, 9999)
        f     == Normalize(m, (IF eNeg THEN -ex ELSE ex) - Len(fracD))
    IN  IF ~ok THEN [val |-> FloatZero, err |-> "syntax"]
        ELSE IF f.m # 0 /\ NumDigits(f.m) + f.e - 1 > MaxFloatExp
        THEN [val |-> FloatInf(IF neg THEN -1 ELSE 1), err |-> "range"]
        ELSE IF f.m # 0 /\ NumDigits(f.m) + f.e - 1 < -MinFloatExp
        THEN [val |-> FloatZero, err |-> NoError]
        ELSE [val |-> Float(IF neg THEN -f.m ELSE f.m, f.e), err |-> NoError]

\* ---------------------------------------------------- parseSignalLines

chars_signed == <<"s", "i", "g", "n", "e", "d">>
chars_intel == <<"i", "n", "t", "e", "l">>

\* parts of a line: strings.Split(strings.Trim(line, " \t,"), ",")
Parts(line) == Split(Trim(line, {" ", "\t", ","}))

\* Mutant: a missing or invalid DLC is left at zero, without a warning.
LineDLCNoDefault(parts) ==
    IF Len(parts) >= MinFields + 1
    THEN [dlc |-> Atoi(parts[12]).val, warn |-> FALSE]
    ELSE [dlc |-> 0, warn |-> FALSE]

\* The DLC of a line that got past the field count and message ID checks
\* (src/main.go:246-260).
LineDLC(parts) ==
    IF Len(parts) >= MinFields + 1
    THEN LET d == Atoi(parts[12]) IN
         IF d.err # NoError
         THEN [dlc |-> DefaultDLC, warn |-> TRUE]
         ELSE [dlc |-> d.val, warn |-> FALSE]
    ELSE [dlc |-> DefaultDLC, warn |-> TRUE]

\* Mutant: a field that does not parse is stored as -1.
IntFieldSentinel(t) == IF Atoi(t).err # NoError THEN -1 ELSE Atoi(t).val

\* Mutant: a field that does not parse is stored as 1.
IntFieldOne(t) == IF Atoi(t).err # NoError THEN 1 ELSE Atoi(t).val

\* x, _ := strconv.Atoi(field): the error is dropped, the value kept.
IntField(t) == Atoi(t).val

\* x, _ := strconv.ParseFloat(field, 64)
FloatField(t) == ParseFloat(t).val

\* The Signal of a line (src/main.go:234-244, 278-290).
LineSignal(parts) ==
    [Name      |-> parts[1],
     Unit      |-> parts[3],
     StartBit  |-> IntField(parts[4]),
     Length    |-> IntField(parts[5]),
     Offset    |-> FloatField(parts[6]),
     Factor    |-> FloatField(parts[7]),
     Max       |-> FloatField(parts[8]),
     Min       |-> FloatField(parts[9]),
     IsSigned  |-> ToLower(parts[10]) = chars_signed,
     ByteOrder |-> IF ToLower(parts[11]) = chars_intel THEN 1 ELSE 0]

NewMessage(msgID, dlc) ==
    [ID |-> msgID, Name |-> <<"CAN_MSG_", msgID>>, DLC |-> dlc,
     Node |-> DefaultNode, Signals |-> <<>>]

\* Mutant: an existing Message keeps the DLC it was created with.
UpsertKeepFirst(msgs, msgID, dlc) ==
    IF msgID \notin DOMAIN msgs
    THEN (msgID :> NewMessage(msgID, dlc)) @@ msgs
    ELSE msgs

\* Look up or create the Message, keeping the larger DLC (src/main.go:262-276).
UpsertMessage(msgs, msgID, dlc) ==
    IF msgID \notin DOMAIN msgs
    THEN (msgID :> NewMessage(msgID, dlc)) @@ msgs
    ELSE IF dlc > msgs[msgID].DLC
    THEN [msgs EXCEPT ![msgID].DLC = dlc]
    ELSE msgs

\* One iteration of parseSignalLines' loop over st = [messages, hasWarnings].
ParseSignalLine(st, line) ==
    LET parts == Parts(line) IN
    IF Len(parts) < MinFields
    THEN [st EXCEPT !.hasWarnings = TRUE]
    ELSE LET id == ParseUint(parts[2]) IN
         IF id.err # NoError
         THEN [st EXCEPT !.hasWarnings = TRUE]
         ELSE LET d    == LineDLC(parts)
                  msgs == UpsertMessage(st.messages, id.val, d.dlc)
              IN  [messages    |-> [msgs EXCEPT ![id.val].Signals =
                                        Append(@, LineSignal(parts))],
                   hasWarnings |-> st.hasWarnings \/ d.warn]

\* --------------------------------------------------------------- writeDBC

RECURSIVE SortIDs(_)
SortIDs(S) ==
    IF S = {} THEN <<>>
    ELSE LET m == CHOOSE x \in S : \A y \in S : x <= y
         IN  <<m>> \o SortIDs(S \ {m})

SignalLine(sig) ==
    [tag |-> "SG_", name |-> sig.Name, start |-> sig.StartBit, length |-> sig.Length,
     order |-> IF sig.ByteOrder = 1 THEN "1" ELSE "0",
     sign |-> IF sig.IsSigned THEN "-" ELSE "+",
     factor |-> sig.Factor, offset |-> sig.Offset, min |-> sig.Min,
     max |-> sig.Max, unit |-> sig.Unit, node |-> DefaultNode]

FrameBlock(msg) ==
    <<[tag |-> "BO_", id |-> msg.ID, name |-> msg.Name, dlc |-> msg.DLC,
       node |-> msg.Node]>>
    \o [k \in 1..Len(msg.Signals) |-> SignalLine(msg.Signals[k])]
    \o <<[tag |-> "blank"]>>

RECURSIVE Blocks(_, _)
Blocks(msgs, ids) ==
    IF ids = <<>> THEN <<>>
    ELSE FrameBlock(msgs[Head(ids)]) \o Blocks(msgs, Tail(ids))

Preamble ==
    <<[tag |-> "VERSION"], [tag |-> "NS_"], [tag |-> "BS_"],
      [tag |-> "BU_", node |-> DefaultNode]>>

\* Mutant: the IDs are left in the order the map produced them.
SortedIDsUnsorted(msgs, iterationOrder) == iterationOrder

\* The ids slice after sort.Slice (src/main.go:309-314): the map's keys, in
\* whatever order the range over the map produced them, sorted ascending.
SortedIDs(msgs, iterationOrder) == SortIDs({iterationOrder[k] : k \in 1..Len(iterationOrder)})

writeDBC(msgs, iterationOrder) ==
    Preamble \o Blocks(msgs, SortedIDs(msgs, iterationOrder))


\* ------------------------------------------------------------ processFile

ReadErrors ==
    {"failed to open input file", "failed to read header",
     "failed to discard header delimiter", "failed to read serial string",
     "failed to discard serial string delimiter", "failed to read zlib serial block",
     "failed to read total entries count", "failed to read entry",
     "error while checking for remaining data"}

Untouched == [old |-> TRUE, data |-> <<>>]

Fatal(e) == /\ err' = e
            /\ pc' = "done"

\* Mutant: the output file is created as soon as the input is open.
OpenInputCreating ==
    /\ pc = "open"
    /\ \E ok \in BOOLEAN :
          IF ok THEN pc' = "header" /\ err' = err /\ outFile' = [old |-> FALSE, data |-> <<>>]
          ELSE Fatal("failed to open input file") /\ outFile' = outFile
    /\ UNCHANGED <<input, inflate, pos, hasWarnings, totalEntries, i, allLines,
                   lineNo, messages, parseWarnings, wbuf>>

\* os.Open (src/main.go:116-122); the file may be missing.
OpenInput ==
    /\ pc = "open"
    /\ \E ok \in BOOLEAN :
          IF ok THEN pc' = "header" /\ err' = err
          ELSE Fatal("failed to open input file")
    /\ UNCHANGED <<input, inflate, pos, hasWarnings, totalEntries, i, allLines,
                   lineNo, messages, parseWarnings, wbuf, outFile>>

\* The header field (src/main.go:127-130).
ReadHeader ==
    /\ pc = "header"
    /\ LET r == readUpToCRLF(input, pos) IN
         /\ pos' = r.pos
         /\ IF r.err # NoError THEN Fatal("failed to read header")
            ELSE pc' = "headerDelim" /\ err' = err
    /\ UNCHANGED <<input, inflate, hasWarnings, totalEntries, i, allLines,
                   lineNo, messages, parseWarnings, wbuf, outFile>>

\* reader.Discard(2) after the header (src/main.go:131-133).
DiscardHeaderDelim ==
    /\ pc = "headerDelim"
    /\ LET r == Discard(input, pos, 2) IN
         /\ pos' = r.pos
         /\ IF r.err # NoError THEN Fatal("failed to discard header delimiter")
            ELSE pc' = "serial" /\ err' = err
    /\ UNCHANGED <<input, inflate, hasWarnings, totalEntries, i, allLines,
                   lineNo, messages, parseWarnings, wbuf, outFile>>

\* The serial string (src/main.go:134-137).
ReadSerial ==
    /\ pc = "serial"
    /\ LET r == readUpToCRLF(input, pos) IN
         /\ pos' = r.pos
         /\ IF r.err # NoError THEN Fatal("failed to read serial string")
            ELSE pc' = "serialDelim" /\ err' = err
    /\ UNCHANGED <<input, inflate, hasWarnings, totalEntries, i, allLines,
                   lineNo, messages, parseWarnings, wbuf, outFile>>

\* reader.Discard(2) after the serial string (src/main.go:138-140).
DiscardSerialDelim ==
    /\ pc = "serialDelim"
    /\ LET r == Discard(input, pos, 2) IN
         /\ pos' = r.pos
         /\ IF r.err # NoError THEN Fatal("failed to discard serial string delimiter")
            ELSE pc' = "zlibSerial" /\ err' = err
    /\ UNCHANGED <<input, inflate, hasWarnings, totalEntries, i, allLines,
                   lineNo, messages, parseWarnings, wbuf, outFile>>

\* The serial blob: read, never decompressed (src/main.go:141-143).
ReadZlibSerial ==
    /\ pc = "zlibSerial"
    /\ LET r == readZlibStr(input, pos) IN
         /\ pos' = r.pos
         /\ IF r.err # NoError THEN Fatal("failed to read zlib serial block")
            ELSE pc' = "count" /\ err' = err
    /\ UNCHANGED <<input, inflate, hasWarnings, totalEntries, i, allLines,
                   lineNo, messages, parseWarnings, wbuf, outFile>>

\* The entry count (src/main.go:145-150); the loop at 154 is entered when
\* the count is not zero.
ReadTotalEntries ==
    /\ pc = "count"
    /\ LET r == ReadUint16(input, pos) IN
         /\ pos' = r.pos
         /\ IF r.err # NoError
            THEN Fatal("failed to read total entries count") /\ totalEntries' = totalEntries
            ELSE /\ totalEntries' = r.val
                 /\ pc' = IF r.val = 0 THEN "trailing" ELSE "entry"
                 /\ err' = err
    /\ UNCHANGED <<input, inflate, hasWarnings, i, allLines,
                   lineNo, messages, parseWarnings, wbuf, outFile>>

\* One iteration of the entry loop (src/main.go:154-174).
ReadEntry ==
    /\ pc = "entry"
    /\ LET r == readZlibStr(input, pos)
           z == decompressZlib(r.data)
       IN  /\ pos' = r.pos
           /\ IF r.err # NoError
              THEN /\ Fatal("failed to read entry")
                   /\ UNCHANGED <<hasWarnings, i, allLines>>
              ELSE /\ i' = i + 1
                   /\ pc' = IF i + 1 < totalEntries THEN "entry" ELSE "trailing"
                   /\ err' = err
                   /\ IF z.err # NoError
                      THEN hasWarnings' = TRUE /\ allLines' = allLines
                      ELSE /\ hasWarnings' = hasWarnings
                           /\ allLines' = allLines \o EntryLines(z.data)
    /\ UNCHANGED <<input, inflate, totalEntries, lineNo, messages, parseWarnings,
                   wbuf, outFile>>

\* Mutant: a byte left after the entries is a fatal error.
TrailingCheckFatal(s, p) ==
    IF p < Len(s)
    THEN [pos |-> p + 1, warn |-> FALSE, err |-> "error while checking for remaining data"]
    ELSE [pos |-> p, warn |-> FALSE, err |-> NoError]

\* reader.ReadByte() after the loop (src/main.go:176-187): one more byte is a
\* warning, end of file is not.
TrailingCheck(s, p) ==
    IF p < Len(s)
    THEN [pos |-> p + 1, warn |-> TRUE, err |-> NoError]
    ELSE [pos |-> p, warn |-> FALSE, err |-> NoError]

CheckTrailing ==
    /\ pc = "trailing"
    /\ LET r == TrailingCheck(input, pos) IN
         /\ pos' = r.pos
         /\ hasWarnings' = (hasWarnings \/ r.warn)
         /\ IF r.err # NoError THEN Fatal(r.err)
            ELSE pc' = "parse" /\ err' = err
    /\ UNCHANGED <<input, inflate, totalEntries, i, allLines,
                   lineNo, messages, parseWarnings, wbuf, outFile>>

\* One iteration of parseSignalLines' loop (src/main.go:217-294).
ParseLine ==
    /\ pc = "parse"
    /\ lineNo < Len(allLines)
    /\ LET st == ParseSignalLine([messages |-> messages, hasWarnings |-> parseWarnings],
                                 allLines[lineNo + 1])
       IN  /\ messages' = st.messages
           /\ parseWarnings' = st.hasWarnings
    /\ lineNo' = lineNo + 1
    /\ UNCHANGED <<input, inflate, pc, pos, hasWarnings, err, totalEntries, i,
                   allLines, wbuf, outFile>>

\* parseSignalLines returns; the flags are combined (src/main.go:190-194, 295).
ParseReturn ==
    /\ pc = "parse"
    /\ lineNo = Len(allLines)
    /\ hasWarnings' = (hasWarnings \/ parseWarnings)
    /\ pc' = "create"
    /\ UNCHANGED <<input, inflate, pos, err, totalEntries, i, allLines, lineNo,
                   messages, parseWarnings, wbuf, outFile>>

\* os.Create(outputPath) (src/main.go:196-203): truncates the file, or fails.
CreateOutput ==
    /\ pc = "create"
    /\ \E ok \in BOOLEAN :
          IF ok
          THEN /\ outFile' = [old |-> FALSE, data |-> <<>>]
               /\ pc' = "write"
               /\ err' = err
          ELSE Fatal("failed to create output file") /\ outFile' = outFile
    /\ UNCHANGED <<input, inflate, pos, hasWarnings, totalEntries, i, allLines,
                   lineNo, messages, parseWarnings, wbuf>>

IterationOrders(S) ==
    {f \in [1..Cardinality(S) -> S] : \A a, b \in 1..Cardinality(S) : a # b => f[a] # f[b]}

\* writeDBC into the bufio.Writer (src/main.go:204-206, 299-349); the range
\* over the map yields the IDs in any order.
WriteDBC ==
    /\ pc = "write"
    /\ \E iterationOrder \in IterationOrders(DOMAIN messages) :
          wbuf' = writeDBC(messages, iterationOrder)
    /\ pc' = "flush"
    /\ UNCHANGED <<input, inflate, pos, hasWarnings, err, totalEntries, i, allLines,
                   lineNo, messages, parseWarnings, outFile>>

\* writer.Flush() (src/main.go:207): the buffer reaches the file, or the
\* write fails.
Flush ==
    /\ pc = "flush"
    /\ \E ok \in BOOLEAN :
          IF ok
          THEN outFile' = [outFile EXCEPT !.data = wbuf] /\ err' = err
          ELSE outFile' = outFile /\ err' = "flush failed"
    /\ pc' = "done"
    /\ UNCHANGED <<input, inflate, pos, hasWarnings, totalEntries, i, allLines,
                   lineNo, messages, parseWarnings, wbuf>>

Next ==
    \/ OpenInput
    \/ ReadHeader
    \/ DiscardHeaderDelim
    \/ ReadSerial
    \/ DiscardSerialDelim
    \/ ReadZlibSerial
    \/ ReadTotalEntries
    \/ ReadEntry
    \/ CheckTrailing
    \/ ParseLine
    \/ ParseReturn
    \/ CreateOutput
    \/ WriteDBC
    \/ Flush


\* ----------------------------------------------------------------- inputs

\* Fields of the sample lines.
RECURSIVE Join(_)
Join(fields) ==
    IF Len(fields) = 1 THEN fields[1]
    ELSE fields[1] \o <<",">> \o Join(Tail(fields))

txtUnsigned == <<"u", "n", "s", "i", "g", "n", "e", "d">>
txtSigned == <<"S", "i", "g", "n", "e", "d">>
txtMotorola == <<"M", "o", "t", "o", "r", "o", "l", "a">>
txtIntel == <<"I", "N", "T", "E", "L">>
txtHuge == <<"9", "9", "9", "9", "9", "9", "9", "9", "9", "9", "9">>

\* name, id, unit, start, length, offset, factor, max, min, sign, order
Fields11(name, id, start, length, factor, sign, order) ==
    <<name, id, <<"V">>, start, length, <<"0", ".", "5">>, factor, <<"9">>, <<"0">>,
      sign, order>>

LineA8 == Join(Fields11(<<"A">>, <<"1">>, <<"0">>, <<"8">>, <<"1">>, txtUnsigned, txtMotorola)
               \o <<(<<"8">>)>>)
LineB3 == Join(Fields11(<<"B">>, <<"1">>, <<"8">>, <<"4">>, <<"2">>, txtSigned, txtIntel)
               \o <<(<<"3">>)>>)
LineNoDLC == Join(Fields11(<<"C">>, <<"2">>, <<"0">>, <<"1">>, <<"1">>, txtUnsigned, txtIntel))
             \o <<",">>
LineBadDLC == Join(Fields11(<<"D">>, <<"1", "0">>, <<"1">>, <<"0">>, <<"1">>, txtSigned,
                            txtMotorola) \o <<(<<"x">>)>>)
LineBadNums == Join(Fields11(<<"E">>, <<"2">>, txtHuge, <<"x">>, <<"1", "e", "9", "9", "9">>,
                             txtUnsigned, txtMotorola) \o <<(<<"1", "2">>)>>)
LineNegLen == Join(Fields11(<<"F">>, <<"1", "0">>, <<"-", "x">>, <<"-", "2">>, <<"e">>,
                            txtUnsigned, txtIntel) \o <<(<<"2">>)>>)
LineBadID == Join(Fields11(<<"G">>, <<"-", "1">>, <<"0">>, <<"8">>, <<"1">>, txtUnsigned,
                           txtMotorola) \o <<(<<"8">>)>>)
LineShort == Join(<<(<<"H">>), <<"1">>, <<"V">>>>)

SampleLines ==
    {LineA8, LineB3, LineNoDLC, LineBadDLC, LineBadNums, LineNegLen, LineBadID, LineShort}

NL == <<"\n">>
CRNL == <<"\r", "\n">>

\* The texts the container specification's payloads inflate to: one line; a
\* blank line and two lines ending CR LF, the last without a newline; a line
\* longer than the Scanner's buffer between two ordinary lines.
SampleTexts ==
    <<LineA8 \o NL,
      <<" ">> \o CRNL \o LineNoDLC \o CRNL \o LineB3,
      LineB3 \o NL \o <<LongRun>> \o NL \o LineA8 \o NL>>

U16(n) == <<n \div 256, n % 256>>
Block(payload) == U16(Len(payload)) \o payload

RECURSIVE BlocksOf(_)
BlocksOf(payloads) ==
    IF payloads = <<>> THEN <<>> ELSE Block(Head(payloads)) \o BlocksOf(Tail(payloads))

\* A container: the two text fields, each followed by CR LF and by extra
\* delimiter bytes (none, or two), the serial blob, the count and the entries.
Container(header, serial, extra, blob, payloads, trail) ==
    header \o <<CR, LF>> \o extra \o serial \o <<CR, LF>> \o extra
    \o Block(blob) \o U16(Len(payloads)) \o BlocksOf(payloads) \o trail

Payloads == {<<ZlibCMF, 1>>, <<ZlibCMF, 2>>, <<ZlibCMF, 3>>, <<0>>}

SeqsUpTo(S, n) == UNION {[1..k -> S] : k \in 0..n}

\* The input files of the container specification: containers in both
\* layouts, with and without trailing bytes, and every truncation of them.
ContainerInputs ==
    LET whole == {Container(h, <<83>>, x, b, ps, t) :
                     h \in {<<>>, <<72>>}, x \in {<<>>, <<0, 1>>}, b \in {<<>>, <<7>>},
                     ps \in SeqsUpTo(Payloads, MaxEntries), t \in {<<>>, <<0>>}}
    IN  UNION {{SubSeq(c, 1, n) : n \in 0..Len(c)} : c \in whole}

InitRest ==
    /\ pc = "open"
    /\ pos = 0
    /\ hasWarnings = FALSE
    /\ err = NoError
    /\ totalEntries = 0
    /\ i = 0
    /\ allLines = <<>>
    /\ lineNo = 0
    /\ messages = <<>>
    /\ parseWarnings = FALSE
    /\ wbuf = <<>>
    /\ outFile = Untouched

Init ==
    /\ inflate = SampleTexts
    /\ input \in ContainerInputs
    /\ InitRest

\* The input files of the line specification: well-formed containers whose
\* entries each hold one of the sample lines.
InitLines ==
    /\ \E ls \in SeqsUpTo(SampleLines, MaxLines) :
          /\ inflate = [k \in 1..Len(ls) |-> ls[k] \o NL]
          /\ input = Container(<<72>>, <<83>>, <<>>, <<7>>,
                               [k \in 1..Len(ls) |-> <<ZlibCMF, k>>], <<>>)
    /\ InitRest

Spec == Init /\ [][Next]_vars

SpecLines == InitLines /\ [][Next]_vars

\* -------------------------------------------- processFile as a function

\* The entry loop run to its end from position p (src/main.go:154-174).
RECURSIVE EntriesFrom(_, _, _, _)
EntriesFrom(s, p, n, acc) ==
    IF n = 0 THEN [pos |-> p, lines |-> acc.lines, warn |-> acc.warn, err |-> NoError]
    ELSE LET r == readZlibStr(s, p)
             z == decompressZlib(r.data)
         IN  IF r.err # NoError
             THEN [pos |-> r.pos, lines |-> acc.lines, warn |-> acc.warn,
                   err |-> "failed to read entry"]
             ELSE IF z.err # NoError
             THEN EntriesFrom(s, r.pos, n - 1, [acc EXCEPT !.warn = TRUE])
             ELSE EntriesFrom(s, r.pos, n - 1,
                              [acc EXCEPT !.lines = @ \o EntryLines(z.data)])

\* Steps 1 to 3 of processFile on the bytes s (src/main.go:126-174): where the
\* reader stands after the last entry, the lines collected, whether an entry
\* failed to decompress, and the fatal error if there is one.
ReadContainer(s) ==
    LET failed(p, e) == [pos |-> p, lines |-> <<>>, warn |-> FALSE, err |-> e]
        h  == readUpToCRLF(s, 0)
        d1 == Discard(s, h.pos, 2)
        sr == readUpToCRLF(s, d1.pos)
        d2 == Discard(s, sr.pos, 2)
        z  == readZlibStr(s, d2.pos)
        n  == ReadUint16(s, z.pos)
    IN  IF h.err # NoError THEN failed(h.pos, "failed to read header")
        ELSE IF d1.err # NoError THEN failed(d1.pos, "failed to discard header delimiter")
        ELSE IF sr.err # NoError THEN failed(sr.pos, "failed to read serial string")
        ELSE IF d2.err # NoError
        THEN failed(d2.pos, "failed to discard serial string delimiter")
        ELSE IF z.err # NoError THEN failed(z.pos, "failed to read zlib serial block")
        ELSE IF n.err # NoError THEN failed(n.pos, "failed to read total entries count")
        ELSE EntriesFrom(s, n.pos, n.val, [lines |-> <<>>, warn |-> FALSE])

\* parseSignalLines on a whole slice of lines (src/main.go:212-296).
RECURSIVE ParseFrom(_, _)
ParseFrom(st, lines) ==
    IF lines = <<>> THEN st ELSE ParseFrom(ParseSignalLine(st, Head(lines)), Tail(lines))

parseSignalLines(lines) == ParseFrom([messages |-> <<>>, hasWarnings |-> FALSE], lines)

\* ------------------------------------------------------------------ claims

\* Every non-blank line of a text, split at newlines whatever their length.
RECURSIVE TextLines(_)
TextLines(t) ==
    IF t = <<>> THEN <<>>
    ELSE LET k == NewlineAt(t) IN
         IF k = 0 THEN <<DropCR(t)>>
         ELSE <<DropCR(SubSeq(t, 1, k - 1))>> \o TextLines(SubSeq(t, k + 1, Len(t)))

NonBlankTextLines(t) == KeepNonBlank(TextLines(t))

\* The block at position p of s is well framed: its two length bytes and the
\* bytes they declare are all there.
WellFramed(s, p) ==
    /\ Len(s) - p >= 2
    /\ s[p + 1] * 256 + s[p + 2] <= Len(s) - p - 2

PayloadAt(s, p) == SubSeq(s, p + 3, p + 2 + s[p + 1] * 256 + s[p + 2])

\* C1: in the entry loop, an entry that is well framed and fails to decompress
\* adds no line, sets the warning flag and returns no error; one that
\* decompresses adds all of its non-blank lines, in order.
C1_EntryLinesAllKept ==
    [][(pc = "entry" /\ WellFramed(input, pos)) =>
          LET z == decompressZlib(PayloadAt(input, pos)) IN
          /\ err' = NoError
          /\ pc' # "done"
          /\ IF z.err # NoError
             THEN allLines' = allLines /\ hasWarnings' = TRUE
             ELSE allLines' = allLines \o NonBlankTextLines(z.data)]_vars

\* The part of C1 that the code keeps: the same, for entries none of whose
\* lines reaches the Scanner's buffer size.
C1_WithinBuffer ==
    [][(pc = "entry" /\ WellFramed(input, pos)) =>
          LET z == decompressZlib(PayloadAt(input, pos)) IN
          /\ err' = NoError
          /\ pc' # "done"
          /\ IF z.err # NoError
             THEN allLines' = allLines /\ hasWarnings' = TRUE
             ELSE (\A k \in 1..Len(z.data) : z.data[k] # LongRun)
                     => allLines' = allLines \o NonBlankTextLines(z.data)]_vars

BlockErrors == {"failed to read zlib serial block", "failed to read entry"}

\* C2: a length-prefixed block (the serial blob or an entry) whose length
\* cannot be read, or which declares more bytes than are left, makes
\* processFile return a fatal error and record no warning for it, however
\* many entries were read before; nothing is then parsed or written.
C2_TruncatedBlockIsFatal ==
    /\ [][(pc \in {"zlibSerial", "entry"} /\ ~WellFramed(input, pos)) =>
             /\ pc' = "done"
             /\ err' \in BlockErrors
             /\ hasWarnings' = hasWarnings]_vars
    /\ [](err \in BlockErrors =>
             /\ pc = "done"
             /\ lineNo = 0
             /\ messages = <<>>
             /\ wbuf = <<>>
             /\ outFile = Untouched)

C2_Witness ==
    /\ pc = "done"
    /\ err = "failed to read entry"
    /\ i >= 1
    /\ allLines # <<>>
    /\ messages = <<>>

\* The position of the first CR LF of s at or after from (bytes before it),
\* or -1 when there is none.
FirstCRLF(s, from) ==
    LET hits == {p \in from..(Len(s) - 2) : s[p + 1] = CR /\ s[p + 2] = LF} IN
    IF hits = {} THEN -1 ELSE CHOOSE p \in hits : \A q \in hits : p <= q

\* C3 as stated: past a field of length L and its CR LF, two further bytes
\* are discarded, so the reader has advanced by L + 4, for both fields.
C3_TerminatorThenDelimiter ==
    LET e1 == FirstCRLF(input, 0)
        e2 == FirstCRLF(input, e1 + 4)
    IN  /\ (pc = "serial" /\ e1 >= 0) => pos = e1 + 4
        /\ (pc = "zlibSerial" /\ e1 >= 0 /\ e2 >= 0) => pos = e2 + 4

\* C3 amended: readUpToCRLF leaves the CR LF unread and the two bytes
\* discarded are the CR LF itself, so the reader has advanced by L + 2 past
\* each field; the serial blob's length prefix is the two bytes following the
\* second field's CR LF.
C3_TerminatorIsDelimiter ==
    LET e1 == FirstCRLF(input, 0)
        e2 == FirstCRLF(input, e1 + 2)
    IN  /\ (pc = "serial" /\ e1 >= 0) =>
              pos = e1 + 2 /\ input[pos - 1] = CR /\ input[pos] = LF
        /\ (pc = "zlibSerial" /\ e1 >= 0 /\ e2 >= 0) =>
              pos = e2 + 2 /\ input[pos - 1] = CR /\ input[pos] = LF
        /\ (pc = "count" /\ e1 >= 0 /\ e2 >= 0) =>
              pos = e2 + 4 + input[e2 + 3] * 256 + input[e2 + 4]

C3_Witness ==
    /\ pc = "count"
    /\ FirstCRLF(input, 0) = 1
    /\ FirstCRLF(input, 3) = 4
    /\ pos = 9

\* The lines handled so far that parseSignalLines accepted for message id.
Accepted(line) ==
    /\ Len(Parts(line)) >= 11
    /\ ParseUint(Parts(line)[2]).err = NoError

LineID(line) == ParseUint(Parts(line)[2]).val

AcceptedFor(id) ==
    {k \in 1..lineNo : Accepted(allLines[k]) /\ LineID(allLines[k]) = id}

\* The effective DLC of a line: its 12th field, or 8 when that is missing or
\* is no integer.
EffectiveDLC(line) ==
    LET parts == Parts(line) IN
    IF Len(parts) >= 12 /\ Atoi(parts[12]).err = NoError THEN Atoi(parts[12]).val ELSE 8

\* C4: the map holds one Message per ID of an accepted line, and its DLC is
\* the largest effective DLC among the accepted lines of that ID.
C4_DLCIsMaximum ==
    /\ DOMAIN messages = {LineID(allLines[k]) : k \in {j \in 1..lineNo : Accepted(allLines[j])}}
    /\ \A id \in DOMAIN messages :
          /\ messages[id].ID = id
          /\ \E k \in AcceptedFor(id) : messages[id].DLC = EffectiveDLC(allLines[k])
          /\ \A k \in AcceptedFor(id) : messages[id].DLC >= EffectiveDLC(allLines[k])

C4_Witness ==
    /\ pc = "done"
    /\ \E id \in DOMAIN messages : \E j, k \in AcceptedFor(id) :
          /\ j < k
          /\ EffectiveDLC(allLines[j]) = 8
          /\ EffectiveDLC(allLines[k]) = 3
          /\ messages[id].DLC = 8

\* The message IDs of the frame lines of an output, in output order.
RECURSIVE FrameIDs(_)
FrameIDs(out) ==
    IF out = <<>> THEN <<>>
    ELSE IF Head(out).tag = "BO_" THEN <<Head(out).id>> \o FrameIDs(Tail(out))
    ELSE FrameIDs(Tail(out))

\* C5: writeDBC emits one frame block per message of the map, in strictly
\* ascending order of message ID.
C5_FramesAscending ==
    pc \in {"flush", "done"} /\ err \notin ReadErrors /\ err # "failed to create output file" =>
        LET ids == FrameIDs(wbuf) IN
        /\ Len(ids) = Cardinality(DOMAIN messages)
        /\ {ids[k] : k \in 1..Len(ids)} = DOMAIN messages
        /\ \A k \in 1..(Len(ids) - 1) : ids[k] < ids[k + 1]

C5_Witness ==
    /\ pc = "done"
    /\ outFile.data = wbuf
    /\ lineNo >= 2
    /\ Accepted(allLines[1]) /\ LineID(allLines[1]) = 10
    /\ Accepted(allLines[2]) /\ LineID(allLines[2]) = 2
    /\ FrameIDs(outFile.data) = <<2, 10>>

\* The signals of message id in a map (none when the map has no such message).
SignalsOf(msgs, id) == IF id \in DOMAIN msgs THEN msgs[id].Signals ELSE <<>>

\* parseSignalLines is about to handle a line it accepts.
AcceptsNext ==
    /\ pc = "parse"
    /\ lineNo < Len(allLines)
    /\ Accepted(allLines[lineNo + 1])

NextParts == Parts(allLines[lineNo + 1])

\* C6: an accepted line whose DLC field is missing or is no integer is not
\* skipped: its signal is appended to its message, its DLC counts as 8 (a
\* message created by it has DLC 8) and parseSignalLines' warning flag is set.
C6_DefaultDLC ==
    [][(AcceptsNext /\ (Len(NextParts) = 11 \/ Atoi(NextParts[12]).err # NoError)) =>
          LET id == LineID(allLines[lineNo + 1]) IN
          /\ id \in DOMAIN messages'
          /\ messages'[id].Signals = Append(SignalsOf(messages, id), LineSignal(NextParts))
          /\ messages'[id].DLC = IF id \in DOMAIN messages /\ messages[id].DLC > 8
                                 THEN messages[id].DLC ELSE 8
          /\ parseWarnings' = TRUE]_vars

C6_Witness ==
    /\ pc = "done"
    /\ allLines = <<LineNoDLC, LineBadDLC>>
    /\ messages[2].DLC = 8 /\ Len(messages[2].Signals) = 1
    /\ messages[10].DLC = 8 /\ Len(messages[10].Signals) = 1
    /\ messages[10].Signals[1].IsSigned
    /\ hasWarnings

NoReadError == err \notin ReadErrors

\* The input without the bytes that follow its last entry, and the message
\* map parseSignalLines builds from it.
StrippedInput == SubSeq(input, 1, ReadContainer(input).pos)

StrippedMessages == parseSignalLines(ReadContainer(StrippedInput).lines).messages

\* C7: a byte left after the last entry is a warning and no error, and the
\* message map and the output are those of the same container without its
\* trailing bytes; a stream that ends after the last entry sets no warning
\* at this step.
C7_TrailingBytes ==
    /\ [][pc = "trailing" =>
             /\ pc' = "parse"
             /\ err' = NoError
             /\ hasWarnings' = IF pos < Len(input) THEN TRUE ELSE hasWarnings]_vars
    /\ [](pc \in {"create", "write", "flush", "done"} /\ NoReadError =>
             /\ ReadContainer(input).err = NoError
             /\ ReadContainer(StrippedInput).err = NoError
             /\ messages = StrippedMessages
             /\ wbuf \in {<<>>, writeDBC(StrippedMessages, SortIDs(DOMAIN StrippedMessages))}
             /\ err \in {NoError, "failed to create output file", "flush failed"})

C7_Witness ==
    /\ pc = "done"
    /\ err = NoError
    /\ ReadContainer(input).pos < Len(input)
    /\ allLines = <<LineA8>>
    /\ parseWarnings = FALSE
    /\ hasWarnings
    /\ DOMAIN messages = {1}
    /\ outFile.data = wbuf

\* The numeric fields 3 to 8 of a line's parts, with the Signal field each is
\* stored in.
IntFields(parts) ==
    {<<parts[4], "StartBit">>, <<parts[5], "Length">>}

FloatFields(parts) ==
    {<<parts[6], "Offset">>, <<parts[7], "Factor">>, <<parts[8], "Max">>,
     <<parts[9], "Min">>}

LastSignal(msgs, id) == msgs[id].Signals[Len(msgs[id].Signals)]

\* The accepted line is kept and the flag changes by its DLC alone.
AcceptedQuietly(id) ==
    /\ id \in DOMAIN messages'
    /\ Len(messages'[id].Signals) = Len(SignalsOf(messages, id)) + 1
    /\ parseWarnings' = (parseWarnings \/ Len(NextParts) = 11
                                       \/ Atoi(NextParts[12]).err # NoError)

\* C8 as stated: every parse failure of a numeric field 3 to 8 stores zero,
\* the line is accepted and the failure sets no warning.
C8_FailureStoresZero ==
    [][AcceptsNext =>
          LET id == LineID(allLines[lineNo + 1]) IN
          /\ AcceptedQuietly(id)
          /\ \A f \in IntFields(NextParts) :
                Atoi(f[1]).err # NoError => LastSignal(messages', id)[f[2]] = 0
          /\ \A f \in FloatFields(NextParts) :
                ParseFloat(f[1]).err # NoError =>
                    LastSignal(messages', id)[f[2]] = [m |-> 0, e |-> 0, inf |-> 0]]_vars

\* C8 amended: a field that is not a number stores zero; a number out of
\* range stores the nearest value (the largest or smallest int, an infinity
\* for a float); either way the line is accepted and no warning is set.
C8_SyntaxZeroRangeSaturates ==
    [][AcceptsNext =>
          LET id == LineID(allLines[lineNo + 1]) IN
          /\ AcceptedQuietly(id)
          /\ \A f \in IntFields(NextParts) :
                /\ Atoi(f[1]).err = "syntax" => LastSignal(messages', id)[f[2]] = 0
                /\ Atoi(f[1]).err = "range" =>
                      LastSignal(messages', id)[f[2]] \in {2147483647, -2147483647 - 1}
          /\ \A f \in FloatFields(NextParts) :
                /\ ParseFloat(f[1]).err = "syntax" =>
                      LastSignal(messages', id)[f[2]] = [m |-> 0, e |-> 0, inf |-> 0]
                /\ ParseFloat(f[1]).err = "range" =>
                      LastSignal(messages', id)[f[2]].inf # 0]_vars

C8_Witness ==
    /\ pc = "parse"
    /\ allLines = <<LineBadNums>>
    /\ lineNo = 1
    /\ parseWarnings = FALSE
    /\ messages[2].Signals[1].StartBit = 2147483647
    /\ messages[2].Signals[1].Length = 0
    /\ messages[2].Signals[1].Factor.inf = 1

\* C9 as stated: every Signal of the map has a length above zero.
C9_LengthPositive ==
    \A id \in DOMAIN messages : \A k \in 1..Len(messages[id].Signals) :
        messages[id].Signals[k].Length > 0

\* The text is a decimal integer above zero: an optional sign +, digits, and
\* one of them not 0.
IsPositiveDecimal(t) ==
    LET body == IF t # <<>> /\ Head(t) = "+" THEN Tail(t) ELSE t IN
    /\ body # <<>>
    /\ \A k \in 1..Len(body) : body[k] \in {"0", "1", "2", "3", "4", "5", "6", "7", "8", "9"}
    /\ \E k \in 1..Len(body) : body[k] # "0"

\* C9 amended: the length of the Signal of an accepted line is above zero
\* exactly when field 4 is a decimal integer above zero; a field that is no
\* number stores length 0 and the line is accepted all the same.
C9_LengthAsParsed ==
    [][AcceptsNext =>
          LET id == LineID(allLines[lineNo + 1]) IN
          /\ id \in DOMAIN messages'
          /\ Len(messages'[id].Signals) = Len(SignalsOf(messages, id)) + 1
          /\ LastSignal(messages', id).Length > 0 <=> IsPositiveDecimal(NextParts[5])
          /\ ~(\E k \in 1..Len(NextParts[5]) : NextParts[5][k] \in {"0", "1", "2", "3", "4", "5", "6", "7", "8", "9"})
                => LastSignal(messages', id).Length = 0]_vars

C9_Witness ==
    /\ pc = "done"
    /\ err = NoError
    /\ allLines = <<LineBadNums, LineNegLen, LineA8>>
    /\ messages[2].Signals[1].Length = 0
    /\ messages[10].Signals[1].Length = -2
    /\ messages[1].Signals[1].Length = 8

\* C10: the output file is created and written only once the container has
\* been read to its end and every line parsed; a run that ends with a fatal
\* read error leaves the file at the output path as it was.
C10_OutputAfterReading ==
    /\ outFile # Untouched =>
          /\ pc \in {"write", "flush", "done"}
          /\ NoReadError
          /\ ReadContainer(input).err = NoError
          /\ i = totalEntries
          /\ pos >= ReadContainer(input).pos
          /\ lineNo = Len(allLines)
    /\ err \in ReadErrors => outFile = Untouched /\ wbuf = <<>>

C10_Witness ==
    /\ pc = "done"
    /\ err = "failed to read entry"
    /\ i >= 1
    /\ outFile = Untouched

====
